---- MODULE Spec2Model ----
(***************************************************************************)
(* BeeRebrander (src/x.py): the Pika -> Bee rebranding of a directory      *)
(* tree.  Texts, file names and path components are TLA+ strings, one      *)
(* character per position as in Python.  The two characters of the mapping *)
(* that lie outside ASCII are written with stand-ins that occur nowhere    *)
(* else in the model: "^" for U+26A1 (high voltage sign) and "~" for       *)
(* U+1F41D (honeybee); each is one character, as in Python.                *)
(***************************************************************************)
EXTENDS Integers, Sequences, FiniteSets, TLC

\* In(v) for v the value of e: a name bound to a value computed once, as an
\* assignment to a local variable binds it.
Bind(e, In(_)) == CHOOSE result \in { In(v) : v \in {e} } : TRUE

(***************************************************************************)
(* Python str primitives.                                                  *)
(***************************************************************************)

\* The positions at which t occurs in s (overlapping ones included):
\* the i with s[i:i+len(t)] == t, counted from 1.
Occurrences(s, t) ==
  LET n == Len(t)
  IN  { i \in 1..(Len(s) - n + 1) : SubSeq(s, i, i + n - 1) = t }

\* `t in s`.
Contains(s, t) ==
  LET n == Len(t)
  IN  \E i \in 1..(Len(s) - n + 1) : SubSeq(s, i, i + n - 1) = t

\* The first position of t in s (str.find + 1), when t occurs in s.
Find(s, t) ==
  LET occ == Occurrences(s, t)
  IN  CHOOSE i \in occ : \A j \in occ : i <= j

\* s.count(t): the non-overlapping occurrences of t, scanning from the left.
RECURSIVE str_count(_, _)
str_count(s, t) ==
  IF ~Contains(s, t) THEN 0
  ELSE 1 + Bind(SubSeq(s, Find(s, t) + Len(t), Len(s)),
               LAMBDA rest : str_count(rest, t))

\* s.replace(old, new): every non-overlapping occurrence, from the left.
RECURSIVE str_replace(_, _, _)
str_replace(s, old, new) ==
  IF ~Contains(s, old) THEN s
  ELSE Bind(Find(s, old), LAMBDA i :
             SubSeq(s, 1, i - 1) \o new
               \o Bind(SubSeq(s, i + Len(old), Len(s)),
                      LAMBDA rest : str_replace(rest, old, new)))

(***************************************************************************)
(* The tables built by BeeRebrander.__init__.                              *)
(***************************************************************************)

\* A mapping in which a new_term is another pair's old_term.
term_mappings_swapping ==
  << [old |-> "Pika", new |-> "Bee"],
     [old |-> "Bee",  new |-> "Pika"] >>

\* self.term_mappings, in the dict's insertion order.
term_mappings ==
  << [old |-> "Pika",          new |-> "Bee"],
     [old |-> "pika",          new |-> "bee"],
     [old |-> "PIKA",          new |-> "BEE"],
     [old |-> "Yeet",          new |-> "Buzz"],
     [old |-> "yeet",          new |-> "buzz"],
     [old |-> "Yeets",         new |-> "Buzzes"],
     [old |-> "yeets",         new |-> "buzzes"],
     [old |-> "yeeting",       new |-> "buzzing"],
     [old |-> "Yeeted",        new |-> "Buzzed"],
     [old |-> "yeeted",        new |-> "buzzed"],
     [old |-> "Reyeet",        new |-> "Rebuzz"],
     [old |-> "reyeet",        new |-> "rebuzz"],
     [old |-> "Reyeets",       new |-> "Rebuzzes"],
     [old |-> "reyeets",       new |-> "rebuzzes"],
     [old |-> "Friends Notes", new |-> "Hive Notes"],
     [old |-> "FriendsNotes",  new |-> "HiveNotes"],
     [old |-> "friends_notes", new |-> "hive_notes"],
     [old |-> "friendsNotes",  new |-> "hiveNotes"],
     [old |-> "Topic Zones",   new |-> "Hive Sections"],
     [old |-> "TopicZones",    new |-> "HiveSections"],
     [old |-> "topic_zones",   new |-> "hive_sections"],
     [old |-> "topicZones",    new |-> "hiveSections"],
     [old |-> "Lightning",     new |-> "Sting"],
     [old |-> "lightning",     new |-> "sting"],
     [old |-> "Where conversations spark",
      new |-> "Where conversations buzz"],
     [old |-> "^",             new |-> "~"],
     [old |-> "com.pika.app",  new |-> "com.bee.app"],
     [old |-> "com/pika/app",  new |-> "com/bee/app"] >>

\* self.processable_extensions
processable_extensions ==
  { ".kt", ".kts", ".java", ".swift", ".xml", ".json", ".yaml", ".yml",
    ".md", ".txt", ".gradle", ".properties", ".conf", ".toml", ".html",
    ".css", ".js", ".ts" }

\* self.skip_patterns
skip_patterns ==
  { ".git", ".gradle", "build", ".idea", "node_modules", "__pycache__",
    ".DS_Store", "*.class", "*.jar" }

(***************************************************************************)
(* replace_in_content and rename_path_component.                           *)
(***************************************************************************)

\* The sort without reverse=True: shortest old_term first.
InsertByLengthAscending(sorted, p) ==
  LET ahead == { i \in 1..Len(sorted) : Len(sorted[i].old) <= Len(p.old) }
      k == Cardinality(ahead)
  IN  SubSeq(sorted, 1, k) \o <<p>> \o SubSeq(sorted, k + 1, Len(sorted))

\* One step of a stable sort by descending len(old_term): p goes behind
\* every pair already placed whose old_term is at least as long.
InsertByLength(sorted, p) ==
  LET ahead == { i \in 1..Len(sorted) : Len(sorted[i].old) >= Len(p.old) }
      k == Cardinality(ahead)
  IN  SubSeq(sorted, 1, k) \o <<p>> \o SubSeq(sorted, k + 1, Len(sorted))

\* sorted(pairs, key=lambda x: len(x[0]), reverse=True): the sort is
\* stable, so pairs of equal length keep their order.
RECURSIVE SortedByLength(_)
SortedByLength(pairs) ==
  IF pairs = << >> THEN << >>
  ELSE InsertByLength(SortedByLength(SubSeq(pairs, 1, Len(pairs) - 1)),
                      pairs[Len(pairs)])

\* sorted_mappings of replace_in_content
sorted_mappings == SortedByLength(term_mappings)

\* The loop counting the pairs that match instead of their occurrences.
RECURSIVE ApplyPairsCountingPairs(_, _, _, _)
ApplyPairsCountingPairs(pairs, i, text, total) ==
  IF i > Len(pairs) THEN [text |-> text, count |-> total]
  ELSE LET count == str_count(text, pairs[i].old)
       IN  IF count > 0
           THEN ApplyPairsCountingPairs(pairs, i + 1,
                           str_replace(text, pairs[i].old, pairs[i].new),
                           total + 1)
           ELSE ApplyPairsCountingPairs(pairs, i + 1, text, total)

\* The loop of replace_in_content over pairs[i..]: count, then replace.
RECURSIVE ApplyPairs(_, _, _, _)
ApplyPairs(pairs, i, text, total) ==
  IF i > Len(pairs) THEN [text |-> text, count |-> total]
  ELSE Bind(<<text, total>>, LAMBDA args :
         LET modified_content == args[1]
             total_replacements == args[2]
             count == str_count(modified_content, pairs[i].old)
         IN  IF count > 0
             THEN ApplyPairs(pairs, i + 1,
                             str_replace(modified_content, pairs[i].old,
                                         pairs[i].new),
                             total_replacements + count)
             ELSE ApplyPairs(pairs, i + 1, modified_content,
                             total_replacements))

replace_in_content(content) == ApplyPairs(sorted_mappings, 1, content, 0)

\* The loop of rename_path_component over term_mappings[i..].
RECURSIVE RenameFrom(_, _)
RenameFrom(i, new_name) ==
  IF i > Len(term_mappings) THEN new_name
  ELSE Bind(new_name, LAMBDA name :
         IF Contains(name, term_mappings[i].old)
         THEN RenameFrom(i + 1, str_replace(name, term_mappings[i].old,
                                            term_mappings[i].new))
         ELSE RenameFrom(i + 1, name))

rename_path_component(name) == RenameFrom(1, name)

(***************************************************************************)
(* Paths and the file system.  A path is the sequence of its components    *)
(* below the working directory (Path("./pika-kmp") is <<"pika-kmp">>); the *)
(* working directory << >> always exists.  The file system maps each       *)
(* existing path to its entry; `id` is the entry's identity (its inode),   *)
(* which a rename keeps.                                                    *)
(***************************************************************************)

\* Code-point order of the characters that occur in names.  The stand-ins
\* "^" and "~" come last, where U+26A1 and U+1F41D are.
CodePointOrder ==
  " !#$%&'()*+,-./0123456789:;<=>?@ABCDEFGHIJKLMNOPQRSTUVWXYZ[]_abcdefghijklmnopqrstuvwxyz{|}^~"

Ord(c) == CHOOSE i \in 1..Len(CodePointOrder) : SubSeq(CodePointOrder, i, i) = c

\* a < b for Python strings.
RECURSIVE StrLess(_, _)
StrLess(a, b) ==
  IF b = "" THEN FALSE
  ELSE IF a = "" THEN TRUE
  ELSE IF Head(a) = Head(b) THEN StrLess(Tail(a), Tail(b))
  ELSE Ord(Head(a)) < Ord(Head(b))

\* The names in descending order.
RECURSIVE SortNamesDescending(_)
SortNamesDescending(S) ==
  IF S = {} THEN << >>
  ELSE LET m == CHOOSE a \in S : \A b \in S \ {a} : StrLess(b, a)
       IN  <<m>> \o SortNamesDescending(S \ {m})

\* sorted(...) of sibling paths: by name.
RECURSIVE SortNames(_)
SortNames(S) ==
  IF S = {} THEN << >>
  ELSE Bind(CHOOSE a \in S : \A b \in S \ {a} : StrLess(a, b),
           LAMBDA m : <<m>> \o Bind(S \ {m}, LAMBDA rest : SortNames(rest)))

\* str(path)
RECURSIVE PathStr(_)
PathStr(p) ==
  IF p = << >> THEN "."
  ELSE IF Len(p) = 1 THEN p[1]
  ELSE p[1] \o "/" \o PathStr(Tail(p))

\* path.name and path.parent
Name(p) == p[Len(p)]
Parent(p) == SubSeq(p, 1, Len(p) - 1)

\* The index of the last "." of name, 0 when there is none (str.rfind + 1).
LastDot(name) ==
  LET dots == { i \in 1..Len(name) : SubSeq(name, i, i) = "." }
  IN  IF dots = {} THEN 0 ELSE CHOOSE i \in dots : \A j \in dots : j <= i

\* PurePath.suffix: from the last dot, unless that dot starts or ends the name.
Suffix(name) ==
  LET i == LastDot(name)
  IN  IF 1 < i /\ i < Len(name) THEN SubSeq(name, i, Len(name)) ELSE ""

IsUnder(q, p) == Len(q) > Len(p) /\ SubSeq(q, 1, Len(p)) = p

Exists(f, p) == p = << >> \/ p \in DOMAIN f
IsFile(f, p) == p \in DOMAIN f /\ f[p].kind = "file"
IsDir(f, p)  == p = << >> \/ (p \in DOMAIN f /\ f[p].kind = "dir")

\* The names path.iterdir() yields.
ChildNames(f, p) == { Name(q) : q \in { r \in DOMAIN f : Parent(r) = p } }

\* should_skip looking at the entry's own name only.
should_skip_name_only(path) ==
  \E pattern \in skip_patterns : Contains(Name(path), pattern)

\* should_skip reading "*.class" and "*.jar" as wildcards on the name.
should_skip_wildcards(path) ==
  \/ \E pattern \in skip_patterns : Contains(PathStr(path), pattern)
  \/ Suffix(Name(path)) \in {".class", ".jar"}

\* should_skip: a pattern occurs anywhere in the path's string.
should_skip(path) ==
  \E pattern \in skip_patterns : Contains(PathStr(path), pattern)

\* Path.rename (os.rename on POSIX).  `fails` injects an error the file
\* system reports (permissions, a vanished entry).  A file replaces an
\* existing file, a directory replaces an existing empty directory; any
\* other existing target is an error.
CanRename(f, src, dst, fails) ==
  /\ ~fails
  /\ src \in DOMAIN f
  /\ Exists(f, Parent(dst))
  /\ \/ src = dst
     \/ dst \notin DOMAIN f
     \/ f[src].kind = "file" /\ f[dst].kind = "file"
     \/ f[src].kind = "dir" /\ f[dst].kind = "dir" /\ ChildNames(f, dst) = {}

\* A rename that moves the entry alone and loses what is below it.
RenamedAlone(f, src, dst) ==
  IF src = dst THEN f
  ELSE LET moved == { q \in DOMAIN f : q = src \/ IsUnder(q, src) }
           dom == ((DOMAIN f \ moved) \ {dst}) \cup {dst}
       IN  [q \in dom |-> IF q = dst THEN f[src] ELSE f[q]]

Renamed(f, src, dst) ==
  IF src = dst THEN f
  ELSE LET moved == { q \in DOMAIN f : q = src \/ IsUnder(q, src) }
           To(q) == dst \o SubSeq(q, Len(src) + 1, Len(q))
           From(q) == src \o SubSeq(q, Len(dst) + 1, Len(q))
           dom == ((DOMAIN f \ moved) \ {dst}) \cup { To(q) : q \in moved }
       IN  [q \in dom |->
              IF q = dst \/ IsUnder(q, dst) THEN f[From(q)] ELSE f[q]]

(***************************************************************************)
(* process_file.                                                           *)
(***************************************************************************)

\* self.stats as __init__ sets it.
ZeroStats ==
  [files_renamed |-> 0, folders_renamed |-> 0,
   files_modified |-> 0, replacements_made |-> 0]

\* One entry of the record of what a run did to the file system.
Event(op, id, path, dst, n) ==
  [op |-> op, id |-> id, path |-> path, dst |-> dst, n |-> n]

\* What a call on the file system and the counters leaves: the file system
\* and counters after it, whether an exception left the call (raised),
\* whether the operation the file system was to refuse was attempted (hit),
\* and the operations performed.
Result(f2, st2, raised, hit, events) ==
  [fs |-> f2, stats |-> st2, raised |-> raised, hit |-> hit, events |-> events]

\* The except clause re-raising instead of reporting.
Reraised(f, st, file_path, op, hit, done) ==
  Result(f, st, TRUE, hit,
         done \o <<Event("raised", f[file_path].id, file_path, <<op>>, 0)>>)

\* Lines 162-163: the except clause, entered when operation op of the try
\* block raised after the operations done.  It reports and returns.
Caught(f, st, file_path, op, hit, done) ==
  Result(f, st, FALSE, hit,
         done \o <<Event("caught", f[file_path].id, file_path, <<op>>, 0)>>)

\* The rename without the count.
RenameFileUncounted(f, st, file_path, flt, in_try, done) ==
  LET name == Name(file_path)
      new_name == rename_path_component(name)
      new_path == Parent(file_path) \o <<new_name>>
  IN  IF new_name # name
      THEN IF CanRename(f, file_path, new_path, flt = "rename")
           THEN Result(Renamed(f, file_path, new_path), st, FALSE, FALSE,
                       done \o <<Event("rename_file", f[file_path].id,
                                       file_path, new_path, 0)>>)
           ELSE IF in_try
           THEN Caught(f, st, file_path, "rename", flt = "rename", done)
           ELSE Result(f, st, TRUE, flt = "rename",
                       done \o <<Event("raised", f[file_path].id, file_path,
                                       <<"rename">>, 0)>>)
      ELSE Result(f, st, FALSE, FALSE, done)

\* The rename of the file, lines 129-135 (in_try false: nothing catches what
\* Path.rename raises) and lines 155-160 (in_try true: inside the try block).
RenameFile(fs0, stats0, file_path, flt, in_try, done0) ==
  Bind(<<fs0, stats0, done0>>, LAMBDA args :
    LET f == args[1]  st == args[2]  done == args[3]
    IN
        LET name == Name(file_path)
            new_name == rename_path_component(name)
            new_path == Parent(file_path) \o <<new_name>>
        IN  IF new_name # name
            THEN IF CanRename(f, file_path, new_path, flt = "rename")
                 THEN Result(Renamed(f, file_path, new_path),
                             [st EXCEPT !.files_renamed = @ + 1], FALSE, FALSE,
                             done \o <<Event("rename_file", f[file_path].id,
                                             file_path, new_path, 0)>>)
                 ELSE IF in_try
                 THEN Caught(f, st, file_path, "rename", flt = "rename", done)
                 ELSE Result(f, st, TRUE, flt = "rename",
                             done \o <<Event("raised", f[file_path].id, file_path,
                                             <<"rename">>, 0)>>)
            ELSE Result(f, st, FALSE, FALSE, done))

\* The try block without the count of modified files.
ProcessContentFileUncounted(f, st, file_path, flt) ==
  IF flt = "read"
  THEN Caught(f, st, file_path, "read", TRUE, << >>)
  ELSE LET id == f[file_path].id
           r == replace_in_content(f[file_path].content)
           read == <<Event("read", id, file_path, << >>, 0)>>
       IN  IF r.count > 0
           THEN IF flt = "write"
                THEN Caught(f, st, file_path, "write", TRUE, read)
                ELSE RenameFile(
                       [f EXCEPT ![file_path].content = r.text],
                       [st EXCEPT !.replacements_made = @ + r.count],
                       file_path, flt, TRUE,
                       read \o <<Event("write", id, file_path, << >>, r.count)>>)
           ELSE RenameFile(f, st, file_path, flt, TRUE, read)

\* The try block writing the file back whatever the replacement count.
ProcessContentAlwaysWritten(f, st, file_path, flt) ==
  IF flt = "read"
  THEN Caught(f, st, file_path, "read", TRUE, << >>)
  ELSE LET id == f[file_path].id
           r == replace_in_content(f[file_path].content)
           read == <<Event("read", id, file_path, << >>, 0)>>
       IN  IF flt = "write"
           THEN Caught(f, st, file_path, "write", TRUE, read)
           ELSE RenameFile(
                  [f EXCEPT ![file_path].content = r.text],
                  [st EXCEPT !.files_modified = @ + 1,
                             !.replacements_made = @ + r.count],
                  file_path, flt, TRUE,
                  read \o <<Event("write", id, file_path, << >>, r.count)>>)

\* The try block with the counters of the write-back incremented before the
\* file is written.
ProcessContentCountedFirst(f, st, file_path, flt) ==
  IF flt = "read"
  THEN Caught(f, st, file_path, "read", TRUE, << >>)
  ELSE Bind(replace_in_content(f[file_path].content), LAMBDA r :
       LET id == f[file_path].id
           read == <<Event("read", id, file_path, << >>, 0)>>
           counted == [st EXCEPT !.files_modified = @ + 1,
                                 !.replacements_made = @ + r.count]
       IN  IF r.count > 0
           THEN IF flt = "write"
                THEN Caught(f, counted, file_path, "write", TRUE, read)
                ELSE RenameFile(
                       [f EXCEPT ![file_path].content = r.text], counted,
                       file_path, flt, TRUE,
                       read \o <<Event("write", id, file_path, << >>, r.count)>>)
           ELSE RenameFile(f, st, file_path, flt, TRUE, read))

\* Lines 138-163: the try block of a processable file and its handler.
ProcessContent(f, st, file_path, flt) ==
  IF flt = "read"
  THEN Caught(f, st, file_path, "read", TRUE, << >>)
  ELSE Bind(replace_in_content(f[file_path].content), LAMBDA r :
       LET id == f[file_path].id
           read == <<Event("read", id, file_path, << >>, 0)>>
       IN  IF r.count > 0
           THEN IF flt = "write"
                THEN Caught(f, st, file_path, "write", TRUE, read)
                ELSE RenameFile(
                       [f EXCEPT ![file_path].content = r.text],
                       [st EXCEPT !.files_modified = @ + 1,
                                  !.replacements_made = @ + r.count],
                       file_path, flt, TRUE,
                       read \o <<Event("write", id, file_path, << >>, r.count)>>)
           ELSE RenameFile(f, st, file_path, flt, TRUE, read))

\* process_file with the extension check left out.
process_file_any_extension(f, st, file_path, flt) ==
  IF should_skip(file_path)
  THEN Result(f, st, FALSE, FALSE, << >>)
  ELSE ProcessContent(f, st, file_path, flt)

\* process_file(file_path) on file system f with counters st.  flt names
\* the operation the file system refuses in this call ("none", "read",
\* "write" or "rename").
process_file(f, st, file_path, flt) ==
  IF should_skip(file_path)
  THEN Result(f, st, FALSE, FALSE, << >>)
  ELSE IF Suffix(Name(file_path)) \notin processable_extensions
  THEN RenameFile(f, st, file_path, flt, FALSE, << >>)
  ELSE ProcessContent(f, st, file_path, flt)

(***************************************************************************)
(* The phases after the walk.                                              *)
(***************************************************************************)

\* self.new_base_path: Path("./bee-kmp"), whatever base_path is.
new_base_path == <<"bee-kmp">>

\* The loop of rename_package_structure over os.walk(self.base_path), top
\* down: todo holds the directories still to be listed.  A directory that
\* is gone when its turn comes is passed over (os.walk ignores the error).
RECURSIVE PackageWalk(_, _, _, _, _)
PackageWalk(fs0, stats0, todo0, flt, events0) ==
  Bind(<<fs0, stats0, todo0, events0>>, LAMBDA args :
    LET f == args[1]  st == args[2]  todo == args[3]  events == args[4]
    IN
        IF todo = << >>
        THEN [fs |-> f, stats |-> st, raised |-> FALSE, hit |-> FALSE,
              events |-> events]
        ELSE LET root_path == Head(todo)
             IN  IF ~IsDir(f, root_path)
                 THEN PackageWalk(f, st, Tail(todo), flt, events)
                 ELSE LET names == SortNames(ChildNames(f, root_path))
                          dirs == SelectSeq(names,
                                    LAMBDA n : IsDir(f, root_path \o <<n>>))
                          below == [i \in 1..Len(dirs) |-> root_path \o <<dirs[i]>>]
                          pika_path == root_path \o <<"pika">>
                          bee_path == root_path \o <<"bee">>
                      IN  IF /\ \E i \in 1..Len(dirs) : dirs[i] = "pika"
                             /\ ~should_skip(root_path)
                             /\ Exists(f, pika_path)
                          THEN IF CanRename(f, pika_path, bee_path, flt = "rename")
                               THEN PackageWalk(
                                      Renamed(f, pika_path, bee_path),
                                      [st EXCEPT !.folders_renamed = @ + 1],
                                      below \o Tail(todo), flt,
                                      events \o <<Event("rename_package",
                                                        f[pika_path].id, pika_path,
                                                        bee_path, 0)>>)
                               ELSE [fs |-> f, stats |-> st, raised |-> TRUE,
                                     hit |-> flt = "rename",
                                     events |-> events \o
                                       <<Event("raised", f[pika_path].id, pika_path,
                                               <<"rename">>, 0)>>]
                          ELSE PackageWalk(f, st, below \o Tail(todo), flt, events))

rename_package_structure(f, st, base, flt) ==
  PackageWalk(f, st, <<base>>, flt, << >>)

\* rename_root_directory: the result also holds self.base_path afterwards.
rename_root_directory(f, base, flt) ==
  IF base \in DOMAIN f
  THEN IF CanRename(f, base, new_base_path, flt = "rename")
       THEN [fs |-> Renamed(f, base, new_base_path),
             base_path |-> new_base_path, raised |-> FALSE, hit |-> FALSE,
             events |-> <<Event("rename_root", f[base].id, base,
                                new_base_path, 0)>>]
       ELSE [fs |-> f, base_path |-> base, raised |-> TRUE,
             hit |-> flt = "rename",
             events |-> <<Event("raised", f[base].id, base,
                                <<"rename">>, 0)>>]
  ELSE [fs |-> f, base_path |-> base, raised |-> FALSE, hit |-> FALSE,
        events |-> << >>]

Digits == "0123456789"

\* str(n) for n >= 0, as the f-string formats a counter.
RECURSIVE NumStr(_)
NumStr(n) ==
  IF n < 10 THEN SubSeq(Digits, n + 1, n + 1)
  ELSE NumStr(n \div 10) \o SubSeq(Digits, (n % 10) + 1, (n % 10) + 1)

\* summary_content with two counters in each other's place.
SummaryContentSwapped(st) ==
  "# Bee Rebranding Summary\n\n"
  \o "**Date:** BeeRebrander execution completed\n\n"
  \o "## Overview\n"
  \o "Successfully rebranded from **Pika** to **Bee** ~\n\n"
  \o "## Statistics\n"
  \o "- **Files Renamed:** " \o NumStr(st.files_renamed) \o "\n"
  \o "- **Folders Renamed:** " \o NumStr(st.folders_renamed) \o "\n"
  \o "- **Files Modified:** " \o NumStr(st.replacements_made) \o "\n"
  \o "- **Total Replacements:** " \o NumStr(st.files_modified) \o "\n"

\* summary_content up to the end of its Statistics section (lines 219-231).
\* The fixed text that follows it in the file (lines 232-314: key changes,
\* next steps, verification checklist, rollback plan) is left out.
SummaryContent(st) ==
  "# Bee Rebranding Summary\n\n"
  \o "**Date:** BeeRebrander execution completed\n\n"
  \o "## Overview\n"
  \o "Successfully rebranded from **Pika** to **Bee** ~\n\n"
  \o "## Statistics\n"
  \o "- **Files Renamed:** " \o NumStr(st.files_renamed) \o "\n"
  \o "- **Folders Renamed:** " \o NumStr(st.folders_renamed) \o "\n"
  \o "- **Files Modified:** " \o NumStr(st.files_modified) \o "\n"
  \o "- **Total Replacements:** " \o NumStr(st.replacements_made) \o "\n"

SummaryName == "REBRAND_SUMMARY.md"

\* The identity of the summary file when the run creates it.
SummaryId == 0

\* create_rebrand_summary: open(summary_path, 'w') creates the file or
\* truncates the one that is there.
create_rebrand_summary(f, st, base, flt) ==
  LET summary_path == base \o <<SummaryName>>
      id == IF summary_path \in DOMAIN f THEN f[summary_path].id
            ELSE SummaryId
      entry == [kind |-> "file", id |-> id, content |-> SummaryContent(st)]
  IN  IF flt = "write" \/ ~IsDir(f, base) \/ IsDir(f, summary_path)
      THEN [fs |-> f, raised |-> TRUE, hit |-> flt = "write",
            events |-> <<Event("raised", id, summary_path, <<"write">>, 0)>>]
      ELSE [fs |-> [q \in DOMAIN f \cup {summary_path} |->
                      IF q = summary_path THEN entry ELSE f[q]],
            raised |-> FALSE, hit |-> FALSE,
            events |-> <<Event("summary", id, summary_path, << >>, 0)>>]

(***************************************************************************)
(* The state of a run.                                                     *)
(***************************************************************************)
VARIABLES
  fs,           \* the file system: path |-> [kind, id, content]
  base_path,    \* self.base_path
  stats,        \* self.stats
  pc,           \* where rebrand() is: "start", "walk", "package", "root",
                \* "summary", "done"; "aborted" after the precondition
                \* check failed; "crashed" after an exception left rebrand()
                \* or generate(); "generate" and "generated" for a generator
  stack,        \* the active calls of process_directory, innermost last;
                \* for a generator, its one call of generate
  run,          \* 1 for the first run, 2 for a second run on its result
  faults_left,  \* how many more operations the file system may refuse
  log,          \* the operations of the current run, in order
  text,         \* the argument of a direct call of a text function
  out,          \* the result of that call
  start         \* the file system and the root when the current run started
                \* (for a generator also `once`, what its first run left)

vars ==
  <<fs, base_path, stats, pc, stack, run, faults_left, log, text, out, start>>

NoResult == [op |-> "none", text |-> "", count |-> 0]

(***************************************************************************)
(* Bounds and the initial file systems.                                    *)
(***************************************************************************)

\* The most entries (files and directories) of an initial file system.
MaxEntries == 4

\* The most operations the file system refuses in one behaviour.
MaxFaults == 1

\* The entries an initial file system is drawn from; an entry's index is
\* its identity.
Universe ==
  << [path |-> <<"pika-kmp">>,                    kind |-> "dir",  content |-> ""],
     [path |-> <<"pika-kmp", "app">>,             kind |-> "dir",  content |-> ""],
     [path |-> <<"pika-kmp", "app", "Pika.kt">>,  kind |-> "file",
      content |-> "val x = \"Pika rocks, yeet it\""],
     [path |-> <<"pika-kmp", "Lightning.kt">>,    kind |-> "file",
      content |-> "Friends Notelightning"],
     [path |-> <<"pika-kmp", "Sting.kt">>,        kind |-> "file",
      content |-> "Reyeets are cool yeets"],
     [path |-> <<"pika-kmp", "Pika.png">>,        kind |-> "file",  content |-> "Pika"],
     [path |-> <<"pika-kmp", ".git">>,            kind |-> "dir",  content |-> ""],
     [path |-> <<"pika-kmp", ".git", "Pika.kt">>, kind |-> "file", content |-> "Pika"],
     [path |-> <<"pika-kmp", ".git", "pika">>,    kind |-> "dir",  content |-> ""],
     [path |-> <<"pika-kmp", "pika">>,            kind |-> "dir",  content |-> ""],
     [path |-> <<"pika-kmp", "bee">>,             kind |-> "dir",  content |-> ""],
     [path |-> <<"pika-kmp", "bee", "x.md">>,     kind |-> "file", content |-> "bee"],
     [path |-> <<"pika-kmp", "Yeets.md">>,        kind |-> "file", content |-> "plain"],
     [path |-> <<"pika-kmp", "mybuild.txt">>,     kind |-> "file", content |-> "Pika"],
     [path |-> <<"bee-kmp">>,                     kind |-> "dir",  content |-> ""],
     [path |-> <<"bee-kmp", "old.txt">>,          kind |-> "file", content |-> "Pika"],
     [path |-> <<"build">>,                       kind |-> "dir",  content |-> ""],
     [path |-> <<"build", "pika-kmp">>,           kind |-> "dir",  content |-> ""],
     [path |-> <<"build", "pika-kmp", "Pika.kt">>, kind |-> "file", content |-> "Pika"],
     [path |-> <<"pika-kmp", "App.kt">>,          kind |-> "file", content |-> "Yeet"],
     [path |-> <<"pika-kmp", "pika", "Pika.kt">>, kind |-> "file",
      content |-> "com.pika.app"],
     [path |-> <<"pika-kmp", "Pika.class">>,      kind |-> "file", content |-> "Pika"] >>

Ids == 1..Len(Universe)

\* The root paths a run is given: the default "./pika-kmp", and a root
\* below another directory.
BasePaths == { <<"pika-kmp">>, <<"build", "pika-kmp">> }

\* The file system holding the entries S of the universe.
FileSystem(S) ==
  [q \in { Universe[i].path : i \in S } |->
     LET i == CHOOSE j \in S : Universe[j].path = q
     IN  [kind |-> Universe[i].kind, id |-> i, content |-> Universe[i].content]]

\* Every entry of S lies in a directory of S (or in the working directory).
ParentClosed(S) ==
  \A i \in S : \/ Len(Universe[i].path) = 1
               \/ \E j \in S : /\ Universe[j].path = Parent(Universe[i].path)
                               /\ Universe[j].kind = "dir"

Init ==
  /\ \E S \in SUBSET Ids :
       /\ Cardinality(S) <= MaxEntries
       /\ ParentClosed(S)
       /\ fs = FileSystem(S)
  /\ base_path \in BasePaths
  /\ stats = ZeroStats
  /\ pc = "start"
  /\ stack = << >>
  /\ run = 1
  /\ faults_left = MaxFaults
  /\ log = << >>
  /\ text = ""
  /\ out = NoResult
  /\ start = [fs |-> fs, base_path |-> base_path]

(***************************************************************************)
(* rebrand() and the walk of process_directory, one step per action.       *)
(***************************************************************************)

Frame(path, stage, items, idx) ==
  [path |-> path, stage |-> stage, items |-> items, idx |-> idx]

Top == stack[Len(stack)]

\* The faults the file system may inject into one call.
Faults(ops) == {"none"} \cup (IF faults_left > 0 THEN ops ELSE {})

Spend(flt) == faults_left' = IF flt = "none" THEN faults_left ELSE faults_left - 1

\* The stack after the innermost call returned, and the phase that follows
\* the outermost call (line 332 to line 336).
Return ==
  /\ stack' = SubSeq(stack, 1, Len(stack) - 1)
  /\ pc' = IF Len(stack) = 1 THEN "package" ELSE pc

\* rebrand without its precondition check.
RebrandUnchecked ==
  /\ pc = "start"
  /\ pc' = "walk"
  /\ stack' = <<Frame(base_path, "enter", << >>, 0)>>
  /\ UNCHANGED <<fs, base_path, stats, run, faults_left, log, text, out, start>>

\* rebrand, lines 326-332: the precondition check and the call of
\* process_directory(self.base_path).
Rebrand ==
  /\ pc = "start"
  /\ IF ~Exists(fs, base_path)
     THEN pc' = "aborted" /\ stack' = stack
     ELSE /\ pc' = "walk"
          /\ stack' = <<Frame(base_path, "enter", << >>, 0)>>
  /\ UNCHANGED <<fs, base_path, stats, run, faults_left, log, text, out, start>>

\* process_directory, lines 167-173: the skip check and the listing of the
\* first loop.
EnterDirectory ==
  /\ pc = "walk"
  /\ Top.stage = "enter"
  /\ IF should_skip(Top.path)
     THEN Return /\ log' = log
     ELSE IF ~IsDir(fs, Top.path)
     THEN /\ pc' = "crashed"
          /\ stack' = stack
          /\ log' = Append(log, Event("raised", 0, Top.path, <<"iterdir">>, 0))
     ELSE /\ stack' = [stack EXCEPT ![Len(stack)] =
                         Frame(Top.path, "files",
                               SortNames(ChildNames(fs, Top.path)), 1)]
          /\ pc' = pc
          /\ log' = Append(log, Event("listdir", fs[Top.path].id, Top.path,
                                      << >>, 0))
  /\ UNCHANGED <<fs, base_path, stats, run, faults_left, text, out, start>>

\* One iteration of the first loop (lines 173-175): process_file on the
\* item if it is a file now.
ProcessFileStep ==
  /\ pc = "walk"
  /\ Top.stage = "files"
  /\ Top.idx <= Len(Top.items)
  /\ LET item == Top.path \o <<Top.items[Top.idx]>>
     IN  IF IsFile(fs, item)
         THEN \E flt \in Faults({"read", "write", "rename"}) :
                \E r \in { process_file(fs, stats, item, flt) } :
                    /\ flt = "none" \/ r.hit
                    /\ Spend(flt)
                    /\ fs' = r.fs
                    /\ stats' = r.stats
                    /\ log' = log \o r.events
                    /\ IF r.raised
                       THEN pc' = "crashed" /\ stack' = stack
                       ELSE /\ pc' = pc
                            /\ stack' = [stack EXCEPT
                                           ![Len(stack)].idx = @ + 1]
         ELSE /\ stack' = [stack EXCEPT ![Len(stack)].idx = @ + 1]
              /\ UNCHANGED <<fs, stats, pc, faults_left, log>>
  /\ UNCHANGED <<base_path, run, text, out, start>>

\* The end of the first loop starting the first loop over again.
ListSubdirectoriesRestarts ==
  /\ pc = "walk"
  /\ Top.stage = "files"
  /\ Top.idx > Len(Top.items)
  /\ stack' = [stack EXCEPT ![Len(stack)] =
                 Frame(Top.path, "files", SortNames(ChildNames(fs, Top.path)), 1)]
  /\ UNCHANGED <<fs, base_path, stats, pc, run, faults_left, log, text, out, start>>

\* The listing of the second loop (line 178), taken when the first ended.
ListSubdirectories ==
  /\ pc = "walk"
  /\ Top.stage = "files"
  /\ Top.idx > Len(Top.items)
  /\ stack' = [stack EXCEPT ![Len(stack)] =
                 Frame(Top.path, "dirs", SortNames(ChildNames(fs, Top.path)), 1)]
  /\ UNCHANGED <<fs, base_path, stats, pc, run, faults_left, log, text, out, start>>

\* One iteration of the second loop (lines 178-180): the recursive call on
\* the item if it is a directory now.
ProcessSubdirectoryStep ==
  /\ pc = "walk"
  /\ Top.stage = "dirs"
  /\ Top.idx <= Len(Top.items)
  /\ LET item == Top.path \o <<Top.items[Top.idx]>>
         next == [stack EXCEPT ![Len(stack)].idx = @ + 1]
     IN  stack' = IF IsDir(fs, item)
                  THEN Append(next, Frame(item, "enter", << >>, 0))
                  ELSE next
  /\ UNCHANGED <<fs, base_path, stats, pc, run, faults_left, log, text, out, start>>

\* The directory's own rename without the test that spares the root.
RenameDirectoryAlsoRoot ==
  /\ pc = "walk"
  /\ Top.stage = "dirs"
  /\ Top.idx > Len(Top.items)
  /\ LET dir_path == Top.path
         new_name == rename_path_component(Name(dir_path))
         new_path == Parent(dir_path) \o <<new_name>>
     IN  IF new_name # Name(dir_path)
         THEN \E flt \in Faults({"rename"}) :
                /\ Spend(flt)
                /\ IF CanRename(fs, dir_path, new_path, flt = "rename")
                   THEN /\ fs' = Renamed(fs, dir_path, new_path)
                        /\ stats' = [stats EXCEPT !.folders_renamed = @ + 1]
                        /\ log' = Append(log, Event("rename_dir",
                                     fs[dir_path].id, dir_path, new_path, 0))
                        /\ Return
                   ELSE /\ pc' = "crashed"
                        /\ log' = Append(log, Event("raised",
                                     fs[dir_path].id, dir_path, <<"rename">>, 0))
                        /\ UNCHANGED <<fs, stats, stack>>
         ELSE Return /\ UNCHANGED <<fs, stats, faults_left, log>>
  /\ UNCHANGED <<base_path, run, text, out, start>>

\* The directory's own rename with the directories named pika left for the
\* package-structure phase.
RenameDirectoryLeavesPackage ==
  /\ pc = "walk"
  /\ Top.stage = "dirs"
  /\ Top.idx > Len(Top.items)
  /\ LET dir_path == Top.path
         new_name == rename_path_component(Name(dir_path))
         new_path == Parent(dir_path) \o <<new_name>>
     IN  IF new_name # Name(dir_path) /\ dir_path # base_path
            /\ Name(dir_path) # "pika"
         THEN \E flt \in Faults({"rename"}) :
                /\ Spend(flt)
                /\ IF CanRename(fs, dir_path, new_path, flt = "rename")
                   THEN /\ fs' = Renamed(fs, dir_path, new_path)
                        /\ stats' = [stats EXCEPT !.folders_renamed = @ + 1]
                        /\ log' = Append(log, Event("rename_dir",
                                     fs[dir_path].id, dir_path, new_path, 0))
                        /\ Return
                   ELSE /\ pc' = "crashed"
                        /\ log' = Append(log, Event("raised",
                                     fs[dir_path].id, dir_path, <<"rename">>, 0))
                        /\ UNCHANGED <<fs, stats, stack>>
         ELSE Return /\ UNCHANGED <<fs, stats, faults_left, log>>
  /\ UNCHANGED <<base_path, run, text, out, start>>

\* Lines 182-188: the directory's own rename, then the return.
RenameDirectory ==
  /\ pc = "walk"
  /\ Top.stage = "dirs"
  /\ Top.idx > Len(Top.items)
  /\ LET dir_path == Top.path
         new_name == rename_path_component(Name(dir_path))
         new_path == Parent(dir_path) \o <<new_name>>
     IN  IF new_name # Name(dir_path) /\ dir_path # base_path
         THEN \E flt \in Faults({"rename"}) :
                /\ Spend(flt)
                /\ IF CanRename(fs, dir_path, new_path, flt = "rename")
                   THEN /\ fs' = Renamed(fs, dir_path, new_path)
                        /\ stats' = [stats EXCEPT !.folders_renamed = @ + 1]
                        /\ log' = Append(log, Event("rename_dir",
                                     fs[dir_path].id, dir_path, new_path, 0))
                        /\ Return
                   ELSE /\ pc' = "crashed"
                        /\ log' = Append(log, Event("raised",
                                     fs[dir_path].id, dir_path, <<"rename">>, 0))
                        /\ UNCHANGED <<fs, stats, stack>>
         ELSE Return /\ UNCHANGED <<fs, stats, faults_left, log>>
  /\ UNCHANGED <<base_path, run, text, out, start>>

\* rebrand, line 336.
RenamePackageStructure ==
  /\ pc = "package"
  /\ \E flt \in Faults({"rename"}) :
       \E r \in { rename_package_structure(fs, stats, base_path, flt) } :
           /\ flt = "none" \/ r.hit
           /\ Spend(flt)
           /\ fs' = r.fs
           /\ stats' = r.stats
           /\ log' = log \o r.events
           /\ pc' = IF r.raised THEN "crashed" ELSE "root"
  /\ UNCHANGED <<base_path, stack, run, text, out, start>>

\* The root's rename counted as a renamed folder.
RenameRootDirectoryCounted ==
  /\ pc = "root"
  /\ \E flt \in Faults({"rename"}) :
       \E r \in { rename_root_directory(fs, base_path, flt) } :
           /\ flt = "none" \/ r.hit
           /\ Spend(flt)
           /\ fs' = r.fs
           /\ base_path' = r.base_path
           /\ log' = log \o r.events
           /\ stats' = IF r.base_path # base_path
                       THEN [stats EXCEPT !.folders_renamed = @ + 1]
                       ELSE stats
           /\ pc' = IF r.raised THEN "crashed" ELSE "summary"
  /\ UNCHANGED <<stack, run, text, out, start>>

\* rebrand, line 340.
RenameRootDirectory ==
  /\ pc = "root"
  /\ \E flt \in Faults({"rename"}) :
       \E r \in { rename_root_directory(fs, base_path, flt) } :
           /\ flt = "none" \/ r.hit
           /\ Spend(flt)
           /\ fs' = r.fs
           /\ base_path' = r.base_path
           /\ log' = log \o r.events
           /\ pc' = IF r.raised THEN "crashed" ELSE "summary"
  /\ UNCHANGED <<stats, stack, run, text, out, start>>

\* rebrand, lines 344-360: the summary, then the final report.
CreateRebrandSummary ==
  /\ pc = "summary"
  /\ \E flt \in Faults({"write"}) :
       \E r \in { create_rebrand_summary(fs, stats, base_path, flt) } :
           /\ flt = "none" \/ r.hit
           /\ Spend(flt)
           /\ fs' = r.fs
           /\ log' = log \o r.events
           /\ pc' = IF r.raised THEN "crashed" ELSE "done"
  /\ UNCHANGED <<base_path, stats, stack, run, text, out, start>>

\* A second run on what a completed first run left: a new BeeRebrander
\* rooted at the new root, its counters at 0.  The second run is taken
\* after a first run in which the file system refused nothing, and nothing
\* is refused in it.
SecondRun ==
  /\ pc = "done"
  /\ run = 1
  /\ faults_left = MaxFaults
  /\ run' = 2
  /\ pc' = "start"
  /\ base_path' = new_base_path
  /\ stats' = ZeroStats
  /\ faults_left' = 0
  /\ log' = << >>
  /\ start' = [fs |-> fs, base_path |-> new_base_path]
  /\ UNCHANGED <<fs, stack, text, out>>

Next ==
  \/ Rebrand
  \/ EnterDirectory
  \/ ProcessFileStep
  \/ ListSubdirectories
  \/ ProcessSubdirectoryStep
  \/ RenameDirectory
  \/ RenamePackageStructure
  \/ RenameRootDirectory
  \/ CreateRebrandSummary
  \/ SecondRun

Spec == Init /\ [][Next]_vars

\* The program is one sequential thread: the statement that is next is
\* executed, so a step that can be taken is taken.
FairSpec == Spec /\ WF_vars(Next)

(***************************************************************************)
(* The text functions called on their own: replace_in_content and          *)
(* rename_path_component applied to the texts of a bounded language.       *)
(***************************************************************************)

\* The most tokens of an input text.
MaxTokens == 2

\* Every old_term of the mapping, and fragments that complete or overlap
\* old_terms when put next to them.
Tokens ==
  { term_mappings[i].old : i \in 1..Len(term_mappings) }
    \cup { "Re", "s", "ing", " are cool ", "Friends Note" }

RECURSIVE Words(_)
Words(n) ==
  IF n = 0 THEN {""}
  ELSE LET W == Words(n - 1)
       IN  W \cup { t \o w : t \in Tokens, w \in W }

\* Texts given in full.
Examples ==
  { "Reyeets are cool yeets", "val x = \"Pika rocks, yeet it\"" }

Inputs == Words(MaxTokens) \cup Examples

TextInit ==
  /\ text \in Inputs
  /\ out = NoResult
  /\ fs = FileSystem({})
  /\ base_path = <<"pika-kmp">>
  /\ stats = ZeroStats
  /\ pc = "text"
  /\ stack = << >>
  /\ run = 1
  /\ faults_left = 0
  /\ log = << >>
  /\ start = [fs |-> fs, base_path |-> base_path]

CallReplaceInContent ==
  /\ pc = "text"
  /\ out = NoResult
  /\ \E r \in { replace_in_content(text) } :
         out' = [op |-> "replace_in_content", text |-> r.text,
                 count |-> r.count]
  /\ UNCHANGED <<fs, base_path, stats, pc, stack, run, faults_left, log, text, start>>

CallRenamePathComponent ==
  /\ pc = "text"
  /\ out = NoResult
  /\ out' = [op |-> "rename_path_component",
             text |-> rename_path_component(text), count |-> 0]
  /\ UNCHANGED <<fs, base_path, stats, pc, stack, run, faults_left, log, text, start>>

TextNext == CallReplaceInContent \/ CallRenamePathComponent

TextSpec == TextInit /\ [][TextNext]_vars

(***************************************************************************)
(* The file-list generators: PikaKMPGenerator (a.py),                      *)
(* PlayPodsBackendGenerator (playpods-backend.py) and                      *)
(* EntativaAlgorithmGenerator (entativa-algorithm.py).  generate goes      *)
(* through hard-coded lists of relative paths and creates a file at each.  *)
(* A relative path is the sequence of its components; `stack` holds the    *)
(* one active call: the generator, its list and the index of the path the  *)
(* loop is at.                                                             *)
(***************************************************************************)

Generators ==
  {"PikaKMPGenerator", "PlayPodsBackendGenerator", "EntativaAlgorithmGenerator"}

\* self.base_path, the default of each __init__.
GeneratorBasePath(g) ==
  CASE g = "PikaKMPGenerator" -> <<"pika-kmp">>
    [] g = "PlayPodsBackendGenerator" -> <<"playpods-backend">>
    [] g = "EntativaAlgorithmGenerator" -> <<"entativa-algorithm">>

\* Paths of the hard-coded lists, in the order generate takes them: two
\* that share their directories, and paths directly below the base path.
HardCodedFiles(g) ==
  CASE g = "PikaKMPGenerator" ->
         << <<".github", "workflows", "ios-build.yml">>,
            <<".github", "workflows", "tests.yml">>,
            <<"Dockerfile">>,
            <<".dockerignore">> >>
    [] g = "PlayPodsBackendGenerator" ->
         << <<"Dockerfile.kotlin">>,
            <<"docker", "nginx", "nginx.conf">>,
            <<"docker", "postgres", "init.sql">>,
            <<".dockerignore">> >>
    [] g = "EntativaAlgorithmGenerator" ->
         << <<"Dockerfile">>,
            <<".github", "workflows", "api.yml">>,
            <<".github", "workflows", "deploy.yml">>,
            <<"scripts", "build.sh">> >>

\* The most paths of a generator's lists that a run goes through.
MaxListed == 3

ListedFiles(g) == SubSeq(HardCodedFiles(g), 1, MaxListed)

\* str.endswith
EndsWith(s, suffix) ==
  /\ Len(s) >= Len(suffix)
  /\ SubSeq(s, Len(s) - Len(suffix) + 1, Len(s)) = suffix

\* The content PlayPodsBackendGenerator._create_files gives a new file, by
\* the first suffix test that succeeds.  The branches for .kt, .toml and
\* .md paths, none of which is among ListedFiles, are left out.
PlayPodsContent(file_path) ==
  IF EndsWith(file_path, ".rs")
  THEN "// " \o file_path \o "\n// TODO: Implement Rust media processing\n"
  ELSE IF EndsWith(file_path, ".yaml") \/ EndsWith(file_path, ".yml")
  THEN "# " \o file_path \o "\n# TODO: Configure Kubernetes/CI/CD\n"
  ELSE IF EndsWith(file_path, ".sql")
  THEN "-- " \o file_path \o "\n-- TODO: Create table schema\n"
  ELSE IF EndsWith(file_path, ".tf")
  THEN "# " \o file_path \o "\n# TODO: Configure Terraform infrastructure\n"
  ELSE IF EndsWith(file_path, ".gradle.kts")
  THEN "// " \o file_path \o "\n// TODO: Configure Gradle build\n"
  ELSE IF EndsWith(file_path, ".conf")
  THEN "# " \o file_path \o "\n# TODO: Configure application\n"
  ELSE IF EndsWith(file_path, ".sh")
  THEN "#!/bin/bash\n# " \o file_path \o "\n# TODO: Implement script\n"
  ELSE "# " \o file_path \o "\n# TODO: Implement\n"

\* The content EntativaAlgorithmGenerator._create_files gives a new file.
\* The header of line 708 is kept by the .py branch only; that branch and
\* those for .md, .json, .ipynb, .txt and .toml paths, none of which is
\* among ListedFiles, are left out.
EntativaContent(file_path) ==
  IF EndsWith(file_path, ".yaml") \/ EndsWith(file_path, ".yml")
  THEN "# Neo Qiss Experiments - Entativa Algorithm\n# " \o file_path
       \o "\n# TODO: Configure for maximum engagement\n"
  ELSE IF EndsWith(file_path, ".sh")
  THEN "#!/bin/bash\n# Neo Qiss Experiments - " \o file_path
       \o "\n# Entativa Algorithm - Handle with care!\n# TODO: Implement\n"
  ELSE IF EndsWith(file_path, ".tf")
  THEN "# Neo Qiss Experiments - " \o file_path
       \o "\n# Entativa Algorithm Infrastructure\n# TODO: Configure Terraform\n"
  ELSE IF EndsWith(file_path, ".sql")
  THEN "-- Neo Qiss Experiments - " \o file_path
       \o "\n-- Entativa Algorithm Database Schema\n-- TODO: Create optimized schema\n"
  ELSE "# Neo Qiss Experiments - " \o file_path
       \o "\n# Entativa Algorithm - The Ultimate Recommendation Engine\n# TODO: Implement\n"

StubContent(g, file_path) ==
  IF g = "PlayPodsBackendGenerator" THEN PlayPodsContent(file_path)
  ELSE EntativaContent(file_path)

\* The path and its ancestors below the working directory.
WithParents(p) == { SubSeq(p, 1, k) : k \in 1..Len(p) }

\* The identity of an entry created at path q by the step that makes the
\* k-th record of the log; the entries of the initial file systems have
\* positive identities.
CreatedId(k, q) == 0 - (8 * k + Len(q))

\* Path.mkdir(parents=True, exist_ok=True) on p: it raises when p or one of
\* its ancestors exists and is no directory, and otherwise leaves p and
\* its ancestors existing as directories.
MkdirRaises(f, p) == \E d \in WithParents(p) : d \in DOMAIN f /\ f[d].kind # "dir"

MkdirParents(f, p, k) ==
  [q \in DOMAIN f \cup WithParents(p) |->
     IF q \in DOMAIN f THEN f[q]
     ELSE [kind |-> "dir", id |-> CreatedId(k, q), content |-> ""]]

\* A new file at p with the content given.
WithFile(f, p, content, k) ==
  [q \in DOMAIN f \cup {p} |->
     IF q = p THEN [kind |-> "file", id |-> CreatedId(k, q), content |-> content]
     ELSE f[q]]

\* What may be in the file system before a generator runs: its base path,
\* and each listed path and each ancestor of one, as a file that holds
\* something or as a directory.
PreExisting(g) ==
  LET base == GeneratorBasePath(g)
      files == ListedFiles(g)
      First(i, k) == \A j \in 1..(i - 1) :
                       Len(files[j]) < k \/ SubSeq(files[j], 1, k) # SubSeq(files[i], 1, k)
  IN  { [path |-> base, kind |-> "dir", content |-> "", id |-> 1] }
      \cup
      { [path |-> base \o SubSeq(files[x[1]], 1, x[2]),
         kind |-> x[3],
         content |-> IF x[3] = "file" THEN "kept" ELSE "",
         id |-> 16 * x[1] + 2 * x[2] + (IF x[3] = "file" THEN 1 ELSE 0)] :
        x \in { y \in (1..Len(files)) \X (1..3) \X {"file", "dir"} :
                  y[2] <= Len(files[y[1]]) /\ First(y[1], y[2]) } }

\* The first call of generate, about to take the first path of its lists.
GenInit ==
  /\ \E g \in Generators :
       /\ \E S \in SUBSET PreExisting(g) :
            /\ Cardinality(S) <= MaxEntries
            /\ \A d \in S : \A e \in S : d.path = e.path => d = e
            /\ \A e \in S : \/ Len(e.path) = 1
                            \/ \E d \in S : d.path = Parent(e.path) /\ d.kind = "dir"
            /\ fs = [q \in { e.path : e \in S } |->
                       LET e == CHOOSE d \in S : d.path = q
                       IN  [kind |-> e.kind, id |-> e.id, content |-> e.content]]
       /\ base_path = GeneratorBasePath(g)
       /\ stack = << [generator |-> g, files |-> ListedFiles(g), idx |-> 1] >>
  /\ stats = ZeroStats
  /\ pc = "generate"
  /\ run = 1
  /\ faults_left = 0
  /\ log = << >>
  /\ text = ""
  /\ out = NoResult
  /\ start = [fs |-> fs, base_path |-> base_path, once |-> fs]

\* a.py lines 243-246, one turn of the loop: the parent directories are
\* made, then the path is touched.  touch creates an empty file where
\* nothing exists and leaves an existing entry as it is.
TouchFile ==
  /\ pc = "generate"
  /\ stack[1].generator = "PikaKMPGenerator"
  /\ stack[1].idx <= Len(stack[1].files)
  /\ LET file_path == stack[1].files[stack[1].idx]
         full_path == base_path \o file_path
         k == Len(log) + 1
     IN  IF MkdirRaises(fs, Parent(full_path))
         THEN /\ pc' = "crashed"
              /\ log' = Append(log, Event("raised", 0, full_path, <<"mkdir">>, run))
              /\ UNCHANGED <<fs, stack>>
         ELSE /\ fs' = IF full_path \in DOMAIN fs
                       THEN MkdirParents(fs, Parent(full_path), k)
                       ELSE WithFile(MkdirParents(fs, Parent(full_path), k),
                                     full_path, "", k)
              /\ log' = Append(log, Event(IF full_path \in DOMAIN fs
                                          THEN "touch" ELSE "create",
                                          0, full_path, << >>, run))
              /\ stack' = [stack EXCEPT ![1].idx = @ + 1]
              /\ pc' = pc
  /\ UNCHANGED <<base_path, stats, run, faults_left, text, out, start>>

\* _create_files of generator g, one turn of the loop (playpods-backend.py
\* 647-696, entativa-algorithm.py 703-748): the parent directories are
\* made, and the stub content is written unless the path exists.
CreateFile(g) ==
  /\ pc = "generate"
  /\ stack[1].generator = g
  /\ stack[1].idx <= Len(stack[1].files)
  /\ LET file_path == stack[1].files[stack[1].idx]
         full_path == base_path \o file_path
         k == Len(log) + 1
     IN  IF MkdirRaises(fs, Parent(full_path))
         THEN /\ pc' = "crashed"
              /\ log' = Append(log, Event("raised", 0, full_path, <<"mkdir">>, run))
              /\ UNCHANGED <<fs, stack>>
         ELSE /\ fs' = IF full_path \in DOMAIN fs
                       THEN MkdirParents(fs, Parent(full_path), k)
                       ELSE WithFile(MkdirParents(fs, Parent(full_path), k),
                                     full_path, StubContent(g, PathStr(file_path)), k)
              /\ log' = Append(log, Event(IF full_path \in DOMAIN fs
                                          THEN "exists" ELSE "create",
                                          0, full_path, << >>, run))
              /\ stack' = [stack EXCEPT ![1].idx = @ + 1]
              /\ pc' = pc
  /\ UNCHANGED <<base_path, stats, run, faults_left, text, out, start>>

\* The loop has gone through the lists: generate returns.
EndGenerate ==
  /\ pc = "generate"
  /\ stack[1].idx > Len(stack[1].files)
  /\ pc' = "generated"
  /\ UNCHANGED <<fs, base_path, stats, stack, run, faults_left, log, text, out, start>>

\* The same generator is run a second time on what its first run left,
\* whether that run returned or ended in an exception.
GenerateAgain ==
  /\ pc \in {"generated", "crashed"}
  /\ run = 1
  /\ run' = 2
  /\ pc' = "generate"
  /\ stack' = [stack EXCEPT ![1].idx = 1]
  /\ start' = [start EXCEPT !.once = fs]
  /\ UNCHANGED <<fs, base_path, stats, faults_left, log, text, out>>

GenNext ==
  \/ TouchFile
  \/ CreateFile("PlayPodsBackendGenerator")
  \/ CreateFile("EntativaAlgorithmGenerator")
  \/ EndGenerate
  \/ GenerateAgain

GenSpec == GenInit /\ [][GenNext]_vars

(***************************************************************************)
(* C1.  replace_in_content applies the pairs in non-increasing order of    *)
(* old_term length: the order it uses is a rearrangement of the mapping    *)
(* with no shorter old_term ahead of a longer one; whenever the input      *)
(* holds an old_term that contains another, shorter old_term, the          *)
(* replacement of the longer one appears in the output; and "Reyeets are   *)
(* cool yeets" becomes "Rebuzzes are cool buzzes", under the built-in      *)
(* mapping and under the three pairs Reyeets->Rebuzzes, Yeet->Buzz,        *)
(* yeets->buzzes alone.                                                    *)
(***************************************************************************)
LongestFirstExamplePairs ==
  << [old |-> "Reyeets", new |-> "Rebuzzes"],
     [old |-> "Yeet",    new |-> "Buzz"],
     [old |-> "yeets",   new |-> "buzzes"] >>

\* The pairs whose old_term holds the old_term of another pair.
Containing ==
  { i \in 1..Len(term_mappings) :
      \E j \in 1..Len(term_mappings) :
        /\ j # i
        /\ Contains(term_mappings[i].old, term_mappings[j].old) }

IsLongestFirst(pairs) ==
  \A i, j \in 1..Len(pairs) :
    i < j => Len(pairs[i].old) >= Len(pairs[j].old)

C1_LongestFirst ==
  out.op = "replace_in_content" =>
    /\ Len(sorted_mappings) = Len(term_mappings)
    /\ { sorted_mappings[i] : i \in 1..Len(sorted_mappings) }
         = { term_mappings[i] : i \in 1..Len(term_mappings) }
    /\ IsLongestFirst(sorted_mappings)
    /\ \A i \in Containing :
         Contains(text, term_mappings[i].old)
           => Contains(out.text, term_mappings[i].new)
    /\ text = "Reyeets are cool yeets" =>
         /\ out.text = "Rebuzzes are cool buzzes"
         /\ ApplyPairs(SortedByLength(LongestFirstExamplePairs), 1, text, 0).text
              = "Rebuzzes are cool buzzes"

\* The example text has been replaced.
C1_Witness ==
  /\ out.op = "replace_in_content"
  /\ text = "Reyeets are cool yeets"
  /\ out.text = "Rebuzzes are cool buzzes"

(***************************************************************************)
(* C2.  A second run on the tree a completed first run produced, rooted at *)
(* the new root, replaces nothing, modifies no file and renames nothing:   *)
(* when the second run is done its four counters are 0.                    *)
(***************************************************************************)
C2_SecondRunCountsNothing ==
  (run = 2 /\ pc = "done") => stats = ZeroStats

(***************************************************************************)
(* C3.  An entry whose path string holds a skip substring is left alone by *)
(* the tree walk and by the package-structure phase: until the root is     *)
(* renamed it is where it was when the run started, with the content it    *)
(* had; no write, no rename and no directory listing of the run is of a    *)
(* path that holds a skip substring, so a skipped directory is not         *)
(* descended into and nothing beneath it is written or renamed.            *)
(***************************************************************************)
HasSkipSubstring(path) ==
  \E pattern \in skip_patterns : Contains(PathStr(path), pattern)

HasMappedTerm(name) ==
  \E i \in 1..Len(term_mappings) : Contains(name, term_mappings[i].old)

C3_SkippedUntouched ==
  /\ pc \in {"start", "walk", "package", "root"} =>
       \A q \in DOMAIN start.fs :
         HasSkipSubstring(q) => q \in DOMAIN fs /\ fs[q] = start.fs[q]
  /\ \A k \in DOMAIN log :
       log[k].op \in {"listdir", "write", "rename_file", "rename_dir",
                      "rename_package"}
         => ~HasSkipSubstring(log[k].path)

\* The walk and the package-structure phase are over, directories were
\* listed, and a skipped directory still holds a file and a directory
\* whose names are mapped terms.
C3_Witness ==
  /\ pc = "root"
  /\ log # << >>
  /\ IsFile(fs, <<"pika-kmp", ".git", "Pika.kt">>)
  /\ HasMappedTerm("Pika.kt")
  /\ IsDir(fs, <<"pika-kmp", ".git", "pika">>)
  /\ HasMappedTerm("pika")

(***************************************************************************)
(* C4.  A file that is not skipped and whose extension is not processable  *)
(* is never read and never written: no read or write of a run is of such a *)
(* path, and the file keeps the content it had when the run started.  When *)
(* its name holds a mapped term the walk renames it within its directory,  *)
(* and files_renamed counts every file rename of the run.                  *)
(***************************************************************************)
NonProcessable(path) == Suffix(Name(path)) \notin processable_extensions

FileRenames == { k \in DOMAIN log : log[k].op = "rename_file" }

C4_RenamedNotRewritten ==
  /\ \A k \in DOMAIN log :
       log[k].op \in {"read", "write"} => ~NonProcessable(log[k].path)
  /\ \A q \in DOMAIN start.fs :
       (/\ IsUnder(q, start.base_path)
        /\ start.fs[q].kind = "file"
        /\ NonProcessable(q)
        /\ ~HasSkipSubstring(q)) =>
         /\ \E r \in DOMAIN fs : fs[r].id = start.fs[q].id
         /\ \A r \in DOMAIN fs :
              fs[r].id = start.fs[q].id => fs[r].content = start.fs[q].content
         /\ (pc \in {"package", "root", "summary", "done"}
               /\ HasMappedTerm(Name(q))) =>
              \E k \in FileRenames :
                /\ log[k].id = start.fs[q].id
                /\ log[k].path = q
                /\ Parent(log[k].dst) = Parent(q)
                /\ Name(log[k].dst) # Name(q)
  /\ stats.files_renamed = Cardinality(FileRenames)

\* A run is done; the image Pika.png, whose content is a mapped term, is
\* now Bee.png with that content.
C4_Witness ==
  /\ pc = "done"
  /\ run = 1
  /\ <<"pika-kmp", "Pika.png">> \in DOMAIN start.fs
  /\ IsFile(fs, <<"bee-kmp", "Bee.png">>)
  /\ fs[<<"bee-kmp", "Bee.png">>].content = "Pika"
  /\ stats.files_renamed >= 1

(***************************************************************************)
(* C5.  A failed read of one processable file is isolated.  The step in    *)
(* which the read fails changes neither the file system nor the counters   *)
(* and passes to the next entry of the listing, so the failing file is     *)
(* neither modified nor renamed, then or later in the run.  When the walk  *)
(* has completed and nothing else failed, every other non-skipped          *)
(* processable file of the failing file's directory has been read at its   *)
(* path, and a file read there for the first time was written back with    *)
(* the replacement count of its content when that count is not 0 and       *)
(* renamed when its name holds a mapped term, as without the failure.      *)
(***************************************************************************)
ReadFailures ==
  { k \in DOMAIN log :
      log[k].op \in {"caught", "raised"} /\ log[k].dst = <<"read">> }

Failures == { k \in DOMAIN log : log[k].op \in {"caught", "raised"} }

WalkCompleted == pc \in {"package", "root", "summary", "done"}

\* The last operation of the log is a read failure reported in this step.
ReadFailsNow ==
  /\ Len(log') = Len(log) + 1
  /\ log'[Len(log')].op \in {"caught", "raised"}
  /\ log'[Len(log')].dst = <<"read">>

\* File q of the start tree was processed as process_file processes a file
\* it reads: read at q, written back with its content's replacement count,
\* renamed within its directory.
ProcessedInFull(q) ==
  LET id == start.fs[q].id
      count == replace_in_content(start.fs[q].content).count
      first == { k \in DOMAIN log :
                   /\ log[k].id = id
                   /\ \A j \in 1..(k - 1) : log[j].id # id }
  IN  /\ \E k \in DOMAIN log : log[k].op = "read" /\ log[k].path = q
      /\ \A k \in first :
           log[k].op = "read" =>
             /\ log[k].path = q
             /\ count > 0 =>
                  /\ k + 1 \in DOMAIN log
                  /\ log[k + 1] = Event("write", id, q, << >>, count)
             /\ HasMappedTerm(Name(q)) =>
                  \E j \in FileRenames :
                    /\ j > k
                    /\ log[j].id = id
                    /\ log[j].path = q
                    /\ Parent(log[j].dst) = Parent(q)

C6_ProcessFileCatchesAll ==
  \A k \in DOMAIN log :
    log[k].op = "raised" =>
      ~(log[k].id \in Ids /\ Universe[log[k].id].kind = "file")

(***************************************************************************)
(* C7.  When the root does not exist at the start of a run, the run stops  *)
(* at the precondition check: the file system stays as it was (nothing     *)
(* written or renamed, no summary created), no operation is performed and  *)
(* the four counters stay 0.                                               *)
(***************************************************************************)
C7_MissingRootAborts ==
  start.base_path \notin DOMAIN start.fs =>
    /\ pc \in {"start", "aborted"}
    /\ fs = start.fs
    /\ base_path = start.base_path
    /\ stats = ZeroStats
    /\ log = << >>
    /\ stack = << >>

\* The run stopped at the precondition, in a file system that holds other entries.
C7_Witness ==
  /\ pc = "aborted"
  /\ start.base_path \notin DOMAIN fs
  /\ fs # FileSystem({})

(***************************************************************************)
(* C8.  End to end: a run on the root whose tree is the directory app and  *)
(* the file app/Pika.kt with content val x = "Pika rocks, yeet it", in     *)
(* which the file system refuses nothing, leaves the file at app/Bee.kt    *)
(* under the new root with content val x = "Bee rocks, buzz it" and the    *)
(* counters files_renamed = 1, files_modified = 1, replacements_made = 2.  *)
(***************************************************************************)
EndToEndTree ==
  /\ run = 1
  /\ faults_left = MaxFaults
  /\ start.base_path = <<"pika-kmp">>
  /\ { q \in DOMAIN start.fs : IsUnder(q, start.base_path) }
       = { <<"pika-kmp", "app">>, <<"pika-kmp", "app", "Pika.kt">> }
  /\ start.fs[<<"pika-kmp", "app">>].kind = "dir"
  /\ start.fs[<<"pika-kmp", "app", "Pika.kt">>]
       = [kind |-> "file", id |-> 3,
          content |-> "val x = \"Pika rocks, yeet it\""]

EndToEndFile ==
  /\ <<"bee-kmp", "app", "Pika.kt">> \notin DOMAIN fs
  /\ IsFile(fs, <<"bee-kmp", "app", "Bee.kt">>)
  /\ fs[<<"bee-kmp", "app", "Bee.kt">>]
       = [kind |-> "file", id |-> 3,
          content |-> "val x = \"Bee rocks, buzz it\""]

C8_EndToEnd ==
  (pc = "done" /\ EndToEndTree) =>
    /\ EndToEndFile
    /\ stats.files_renamed = 1
    /\ stats.files_modified = 1
    /\ stats.replacements_made = 2

\* The claim as it stands: replacements_made = 3.
C8_EndToEndThree ==
  (pc = "done" /\ EndToEndTree) =>
    /\ EndToEndFile
    /\ stats.files_renamed = 1
    /\ stats.files_modified = 1
    /\ stats.replacements_made = 3

C8_Witness ==
  /\ pc = "done"
  /\ EndToEndTree
  /\ EndToEndFile
  /\ stats.replacements_made = 2

(***************************************************************************)
(* C9.  A run whose root exists when it starts is never left by an         *)
(* exception: it goes on to the summary and to Done.  The claim holds this *)
(* whatever fails on the way; it is stated here for the runs in which the  *)
(* file system refuses nothing on its own account, so that what fails is a *)
(* rename whose target already exists.                                     *)
(***************************************************************************)
C9_OnlyMissingRootStops ==
  (start.base_path \in DOMAIN start.fs /\ faults_left = MaxFaults)
    => pc # "crashed"

(***************************************************************************)
(* C10.  When a run is done, REBRAND_SUMMARY.md is a file directly under   *)
(* the new root, and the four Statistics lines in it give the values the   *)
(* counters have then.                                                     *)
(***************************************************************************)
StatisticsLine(label, n) == "- **" \o label \o ":** " \o NumStr(n) \o "\n"

C10_SummaryHoldsFinalCounters ==
  pc = "done" =>
    LET summary_path == new_base_path \o <<"REBRAND_SUMMARY.md">>
    IN  /\ base_path = new_base_path
        /\ IsFile(fs, summary_path)
        /\ \A line \in
             { StatisticsLine("Files Renamed", stats.files_renamed),
               StatisticsLine("Folders Renamed", stats.folders_renamed),
               StatisticsLine("Files Modified", stats.files_modified),
               StatisticsLine("Total Replacements", stats.replacements_made) } :
             Contains(fs[summary_path].content, line)

\* A run is done whose counters differ from each other.
C10_Witness ==
  /\ pc = "done"
  /\ IsFile(fs, <<"bee-kmp", "REBRAND_SUMMARY.md">>)
  /\ stats.files_modified = 1
  /\ stats.replacements_made = 2
  /\ stats.folders_renamed = 0

(***************************************************************************)
(* C11.  rename_path_component applies the pairs as replace_in_content     *)
(* does, longest old_term first: for every name, what it returns is the    *)
(* text replace_in_content returns for that name.                          *)
(***************************************************************************)
C11_RenameAsContent ==
  out.op = "rename_path_component" => out.text = replace_in_content(text).text

(***************************************************************************)
(* C12.  A run goes through its phases in one order: tree walk, package    *)
(* structure, root rename, summary, Done.  The phase changes only to the   *)
(* next one (or the run stops), so no phase is entered twice; a phase      *)
(* starts when the one before it has finished (no call of                  *)
(* process_directory is active outside the walk); each operation is done   *)
(* in its own phase; and the root is renamed in the root-rename phase      *)
(* only: once, after every other rename of the run, never by the walk or   *)
(* the package-structure phase.                                            *)
(***************************************************************************)
PhaseOrder == <<"start", "walk", "package", "root", "summary", "done">>

PhaseIndex(p) == CHOOSE i \in DOMAIN PhaseOrder : PhaseOrder[i] = p

IsPhase(p) == \E i \in DOMAIN PhaseOrder : PhaseOrder[i] = p

\* The phase in which an operation of the log is done.
PhaseOf(op) ==
  CASE op \in {"listdir", "read", "write", "rename_file", "rename_dir"}
         -> "walk"
    [] op = "rename_package" -> "package"
    [] op = "rename_root" -> "root"
    [] op = "summary" -> "summary"
    [] OTHER -> "any"

Renames ==
  { k \in DOMAIN log :
      log[k].op \in {"rename_file", "rename_dir", "rename_package",
                     "rename_root"} }

C12_PhasesInOrder ==
  /\ [][pc' # pc =>
          \/ pc = "start" /\ pc' = "aborted"
          \/ pc \in {"walk", "package", "root", "summary"} /\ pc' = "crashed"
          \/ /\ IsPhase(pc) /\ IsPhase(pc')
             /\ PhaseIndex(pc') = PhaseIndex(pc) + 1
          \/ pc = "done" /\ pc' = "start" /\ run' = run + 1]_vars
  /\ [][(run' = run /\ log' # log) =>
          /\ Len(log') > Len(log)
          /\ SubSeq(log', 1, Len(log)) = log
          /\ \A k \in (Len(log) + 1)..Len(log') :
               PhaseOf(log'[k].op) \in {pc, "any"}]_vars
  /\ [][(run' = run /\ base_path' # base_path) => pc = "root"]_vars
  /\ [](/\ pc \notin {"walk", "crashed"} => stack = << >>
        /\ \A k \in Renames :
             IF log[k].op = "rename_root"
             THEN /\ log[k].path = start.base_path
                  /\ \A j \in Renames : j <= k
             ELSE log[k].path # start.base_path)

\* A run is done in which a file was renamed, then a directory, then the
\* root.
C12_Witness ==
  /\ pc = "done"
  /\ \E i, j, k \in Renames :
       /\ i < j /\ j < k
       /\ log[i].op = "rename_file"
       /\ log[j].op = "rename_dir"
       /\ log[k].op = "rename_root"
  /\ log[Len(log)].op = "summary"

(***************************************************************************)
(* C13.  The text replace_in_content returns holds no old_term of the      *)
(* mapping: replace_in_content applied to it returns it unchanged with a   *)
(* count of 0.                                                             *)
(***************************************************************************)
C13_OutputHoldsNoOldTerm ==
  out.op = "replace_in_content" =>
    /\ ~HasMappedTerm(out.text)
    /\ replace_in_content(out.text) = [text |-> out.text, count |-> 0]

(***************************************************************************)
(* C14.  The count replace_in_content returns is the sum, over the pairs   *)
(* in the order they are applied, of the non-overlapping occurrences of    *)
(* the pair's old_term in the working text at the moment the pair is       *)
(* applied; the text it returns is the last working text; and the count is *)
(* 0 exactly when the returned text is the input text.                     *)
(***************************************************************************)

\* The working texts: the input, then the text after each pair in turn.
RECURSIVE WorkingTexts(_, _, _)
WorkingTexts(pairs, i, working) ==
  IF i > Len(pairs) THEN <<working>>
  ELSE <<working>>
         \o WorkingTexts(pairs, i + 1,
                         str_replace(working, pairs[i].old, pairs[i].new))

\* How many of the positions occ, each the start of an occurrence of length
\* n, are taken when they are picked from the left without overlap.
RECURSIVE PickedFromLeft(_, _, _)
PickedFromLeft(occ, n, from) ==
  LET rest == { i \in occ : i >= from }
  IN  IF rest = {} THEN 0
      ELSE LET first == CHOOSE i \in rest : \A j \in rest : i <= j
           IN  1 + PickedFromLeft(occ, n, first + n)

RECURSIVE SumOver(_, _)
SumOver(counts, i) ==
  IF i > Len(counts) THEN 0 ELSE counts[i] + SumOver(counts, i + 1)

C14_CountIsSumOfOccurrences ==
  out.op = "replace_in_content" =>
    LET working == WorkingTexts(sorted_mappings, 1, text)
        counts == [i \in 1..Len(sorted_mappings) |->
                     PickedFromLeft(
                       Occurrences(working[i], sorted_mappings[i].old),
                       Len(sorted_mappings[i].old), 1)]
    IN  /\ out.count = SumOver(counts, 1)
        /\ out.text = working[Len(working)]
        /\ (out.count = 0) <=> (out.text = text)

\* A text in which one pair matches twice.
C14_Witness ==
  /\ out.op = "replace_in_content"
  /\ text = "yeetyeet"
  /\ out = [op |-> "replace_in_content", text |-> "buzzbuzz", count |-> 2]

(***************************************************************************)
(* C15.  process_file writes a processable file back only when its         *)
(* replacement count is not 0: every write of a run follows the read of    *)
(* the same file and carries a count above 0.  A processable file whose    *)
(* content holds no old_term is never written and keeps its content, and   *)
(* when its name holds a mapped term and nothing failed on it, the walk    *)
(* has renamed it within its directory.                                    *)
(***************************************************************************)
C15_WrittenOnlyWhenReplaced ==
  /\ \A k \in DOMAIN log :
       log[k].op = "write" =>
         /\ log[k].n > 0
         /\ k > 1
         /\ log[k - 1] = Event("read", log[k].id, log[k].path, << >>, 0)
  /\ \A q \in DOMAIN start.fs :
       (/\ IsUnder(q, start.base_path)
        /\ start.fs[q].kind = "file"
        /\ ~NonProcessable(q)
        /\ ~HasSkipSubstring(q)
        /\ ~HasMappedTerm(start.fs[q].content)) =>
         /\ \A k \in DOMAIN log :
              log[k].op = "write" => log[k].id # start.fs[q].id
         /\ \A r \in DOMAIN fs :
              fs[r].id = start.fs[q].id => fs[r].content = start.fs[q].content
         /\ (/\ WalkCompleted
             /\ HasMappedTerm(Name(q))
             /\ \A k \in Failures : log[k].id # start.fs[q].id) =>
              \E k \in FileRenames :
                /\ log[k].id = start.fs[q].id
                /\ log[k].path = q
                /\ Parent(log[k].dst) = Parent(q)
                /\ Name(log[k].dst) # Name(q)
                /\ k > 1
                /\ log[k - 1] = Event("read", start.fs[q].id, q, << >>, 0)

\* The run is done: Yeets.md, whose content holds no old_term, was read and
\* renamed without a write, and has its content under its new name.
C15_Witness ==
  /\ pc = "done"
  /\ <<"pika-kmp", "Yeets.md">> \in DOMAIN start.fs
  /\ \E k \in DOMAIN log :
       /\ log[k].op = "read"
       /\ log[k].path = <<"pika-kmp", "Yeets.md">>
       /\ log[k + 1].op = "rename_file"
  /\ IsFile(fs, <<"bee-kmp", "Buzzs.md">>)
  /\ fs[<<"bee-kmp", "Buzzs.md">>].content = "plain"

(***************************************************************************)
(* C16.  process_directory works in post-order.  In a directory the files  *)
(* are processed in sorted order, all of them before any subdirectory is   *)
(* entered, and the subdirectories are entered in sorted order; a          *)
(* directory is renamed after its own listing and after every operation on *)
(* an entry beneath it.  Every path that is handed on exists when its turn *)
(* comes: the entry of a listing that is next, the directory of every      *)
(* active call of process_directory.                                       *)
(***************************************************************************)
FileOperations ==
  { k \in DOMAIN log : log[k].op \in {"read", "write", "rename_file", "caught"} }

Listings == { k \in DOMAIN log : log[k].op = "listdir" }

\* a <= b for names.
NameBeforeOrSame(a, b) == ~StrLess(b, a)

C16_PostOrder ==
  /\ \A j, k \in FileOperations :
       (j < k /\ Parent(log[j].path) = Parent(log[k].path))
         => NameBeforeOrSame(Name(log[j].path), Name(log[k].path))
  /\ \A j, k \in Listings :
       (j < k /\ Parent(log[j].path) = Parent(log[k].path))
         => StrLess(Name(log[j].path), Name(log[k].path))
  /\ \A j \in FileOperations : \A k \in Listings :
       Parent(log[j].path) = Parent(log[k].path) => j < k
  /\ \A k \in DOMAIN log :
       log[k].op = "rename_dir" =>
         /\ \E j \in Listings : j < k /\ log[j].path = log[k].path
         /\ \A j \in DOMAIN log :
              (j # k /\ (log[j].path = log[k].path
                           \/ IsUnder(log[j].path, log[k].path)))
                => j < k
  /\ pc = "walk" =>
       /\ \A i \in DOMAIN stack : IsDir(fs, stack[i].path)
       /\ (Top.stage \in {"files", "dirs"} /\ Top.idx <= Len(Top.items))
            => Top.path \o <<Top.items[Top.idx]>> \in DOMAIN fs

\* The walk is over: in the root App.kt was written before the directory
\* pika was entered, and pika was renamed after the file in it was written
\* and renamed.
C16_Witness ==
  /\ pc = "package"
  /\ \E a, c, d, e \in DOMAIN log :
       /\ a < c /\ c < d /\ d < e
       /\ log[a].op = "write" /\ log[a].path = <<"pika-kmp", "App.kt">>
       /\ log[c].op = "listdir" /\ log[c].path = <<"pika-kmp", "pika">>
       /\ log[d].op = "rename_file"
       /\ log[d].path = <<"pika-kmp", "pika", "Pika.kt">>
       /\ log[e].op = "rename_dir" /\ log[e].path = <<"pika-kmp", "pika">>

(***************************************************************************)
(* C17.  The walk neither loses nor repeats work.  In a run in which       *)
(* nothing has failed, no file is read (and so put through                 *)
(* replace_in_content) twice, and when the walk has completed every        *)
(* non-skipped entry that was under the root when the run started has been *)
(* processed exactly once: a processable file read once, a directory       *)
(* listed once.                                                            *)
(***************************************************************************)
OperationsOn(op, id) == { k \in DOMAIN log : log[k].op = op /\ log[k].id = id }

C17_ProcessedExactlyOnce ==
  Failures = {} =>
    /\ \A id \in Ids : Cardinality(OperationsOn("read", id)) <= 1
    /\ WalkCompleted =>
       \A q \in DOMAIN start.fs :
         (IsUnder(q, start.base_path) /\ ~HasSkipSubstring(q)) =>
           IF start.fs[q].kind = "dir"
           THEN Cardinality(OperationsOn("listdir", start.fs[q].id)) = 1
           ELSE NonProcessable(q)
                  \/ Cardinality(OperationsOn("read", start.fs[q].id)) = 1

(***************************************************************************)
(* C18.  should_skip(path) is true exactly when one of the nine skip       *)
(* patterns occurs, character for character, somewhere in the path's       *)
(* string, in an ancestor's name as well as in the entry's own; "*.class"  *)
(* and "*.jar" are such literal texts, so a name that merely ends in       *)
(* ".class" or ".jar" is not skipped.  The call changes nothing: a step of *)
(* the walk whose path is skipped leaves the tree, the counters and the    *)
(* record of operations as they were, and a directory that is not skipped  *)
(* is entered.                                                             *)
(***************************************************************************)
SkipRule ==
  { ".git", ".gradle", "build", ".idea", "node_modules", "__pycache__",
    ".DS_Store", "*.class", "*.jar" }

\* Some stretch of the string, as long as the pattern, is the pattern itself.
LiteralSubstring(s, pattern) ==
  \E i \in 1..Len(s) :
    /\ i + Len(pattern) - 1 <= Len(s)
    /\ SubSeq(s, i, i + Len(pattern) - 1) = pattern

SkippedLiterally(path) ==
  \E pattern \in SkipRule : LiteralSubstring(PathStr(path), pattern)

\* The paths a run can hand to should_skip: the root and the entries of
\* the tree.
PathsAtHand == {base_path} \cup DOMAIN fs

\* The path the walk's next step calls should_skip with.
WalkPath ==
  IF Top.stage = "enter" THEN Top.path
  ELSE Top.path \o <<Top.items[Top.idx]>>

ChecksSkip ==
  /\ pc = "walk"
  /\ \/ Top.stage = "enter"
     \/ /\ Top.stage = "files"
        /\ Top.idx <= Len(Top.items)
        /\ IsFile(fs, Top.path \o <<Top.items[Top.idx]>>)

C18_SkipIsLiteralSubstring ==
  /\ [](\A q \in PathsAtHand :
          /\ should_skip(q) <=> SkippedLiterally(q)
          /\ (/\ Suffix(Name(q)) \in {".class", ".jar"}
              /\ \A pattern \in SkipRule \ {"*.class", "*.jar"} :
                   ~LiteralSubstring(PathStr(q), pattern)
              /\ ~LiteralSubstring(PathStr(q), "*"))
               => ~should_skip(q))
  /\ [][(ChecksSkip /\ SkippedLiterally(WalkPath)) =>
          UNCHANGED <<fs, stats, log, base_path>>]_vars
  /\ [][(pc = "walk" /\ Top.stage = "enter" /\ ~SkippedLiterally(Top.path))
          => log' # log]_vars

\* A completed walk of a tree that holds Pika.class next to a .git
\* directory with a file: the .class file was renamed, the file below .git
\* is where it was.
C18_Witness ==
  /\ pc = "package"
  /\ start.base_path = <<"pika-kmp">>
  /\ <<"pika-kmp", "Pika.class">> \in DOMAIN start.fs
  /\ <<"pika-kmp", ".git", "Pika.kt">> \in DOMAIN start.fs
  /\ <<"pika-kmp", "Bee.class">> \in DOMAIN fs
  /\ <<"pika-kmp", ".git", "Pika.kt">> \in DOMAIN fs
  /\ \E k \in DOMAIN log :
       /\ log[k].op = "rename_file"
       /\ log[k].path = <<"pika-kmp", "Pika.class">>

(***************************************************************************)
(* C19.  The counters account exactly for what the run did.  In every      *)
(* state of a run, and so when it has completed, files_renamed is the      *)
(* number of file renames performed, folders_renamed the number of         *)
(* directory renames performed by the walk and by the package-structure    *)
(* phase (the rename of the root adds nothing), files_modified the number  *)
(* of files written back, and replacements_made the sum of the replacement *)
(* counts of exactly those writes.                                         *)
(***************************************************************************)
Performed(ops) == { k \in DOMAIN log : log[k].op \in ops }

RECURSIVE ReplacementsWritten(_)
ReplacementsWritten(k) ==
  IF k = 0 THEN 0
  ELSE ReplacementsWritten(k - 1)
         + (IF log[k].op = "write" THEN log[k].n ELSE 0)

C19_CountersAccount ==
  /\ stats.files_renamed = Cardinality(Performed({"rename_file"}))
  /\ stats.folders_renamed
       = Cardinality(Performed({"rename_dir", "rename_package"}))
  /\ stats.files_modified = Cardinality(Performed({"write"}))
  /\ stats.replacements_made = ReplacementsWritten(Len(log))

\* A completed run that renamed a file, renamed a folder, wrote one file
\* with two replacements and renamed the root.
C19_Witness ==
  /\ pc = "done"
  /\ stats = [files_renamed |-> 1, folders_renamed |-> 1,
              files_modified |-> 1, replacements_made |-> 2]
  /\ Performed({"rename_root"}) # {}

(***************************************************************************)
(* C20.  In every state of a run the four counters are non-negative,       *)
(* replacements_made is at least files_modified, and files_modified is 0   *)
(* exactly when replacements_made is 0; no step of a run lowers a counter, *)
(* and once the run has ended (completed, stopped at the missing root, or  *)
(* left by an error) its counters stay as they are.  A second run is       *)
(* another BeeRebrander with counters of its own.                          *)
(***************************************************************************)
Counters ==
  {"files_renamed", "folders_renamed", "files_modified", "replacements_made"}

RunEnded == pc \in {"done", "aborted", "crashed"}

C20_CountersMonotone ==
  /\ [](/\ \A c \in Counters : stats[c] >= 0
        /\ stats.replacements_made >= stats.files_modified
        /\ (stats.files_modified = 0) <=> (stats.replacements_made = 0))
  /\ [][run' = run => \A c \in Counters : stats'[c] >= stats[c]]_vars
  /\ [][(RunEnded /\ run' = run) => stats' = stats]_vars

\* A completed run in which a file was written with more than one
\* replacement and every counter has been raised.
C20_Witness ==
  /\ pc = "done"
  /\ \A c \in Counters : stats[c] > 0
  /\ stats.replacements_made > stats.files_modified

(***************************************************************************)
(* C21.  Every run terminates: from its start it reaches Done (after the   *)
(* summary), or stops at the missing root or at an error nothing caught.   *)
(* When it has ended, its record shows that no phase was entered again     *)
(* once left (the operations are in the order of the phases) and that no   *)
(* file whose processing failed was tried again: after the failure was     *)
(* reported the run read, wrote and renamed that file no more.             *)
(***************************************************************************)
NoRetry ==
  \A k \in DOMAIN log :
    log[k].op = "caught" =>
      \A j \in DOMAIN log :
        (j > k /\ log[j].id = log[k].id) =>
          log[j].op \notin {"read", "write", "rename_file"}

InPhaseOrder ==
  \A j, k \in DOMAIN log :
    (j < k /\ IsPhase(PhaseOf(log[j].op)) /\ IsPhase(PhaseOf(log[k].op))) =>
      PhaseIndex(PhaseOf(log[j].op)) <= PhaseIndex(PhaseOf(log[k].op))

C21_Terminates ==
  (pc = "start") ~> (RunEnded /\ NoRetry /\ InPhaseOrder)

\* A run that reached Done although the processing of one file failed,
\* having walked into a subdirectory.
C21_Witness ==
  /\ pc = "done"
  /\ Performed({"caught"}) # {}
  /\ Cardinality(Performed({"listdir"})) >= 2

(***************************************************************************)
(* C22.  The built-in mapping is well formed: no old_term is empty, no     *)
(* old_term is its own new_term, and no new_term holds the old_term of any *)
(* pair.  So a replacement on its own brings back nothing that is to be    *)
(* replaced: an old_term given to replace_in_content as the whole text     *)
(* comes back as its new_term, after one replacement, with no old_term in  *)
(* it.                                                                     *)
(***************************************************************************)
Pairs == DOMAIN term_mappings

\* The three conditions on the table itself.
WellFormed ==
  /\ \A i \in Pairs :
       /\ term_mappings[i].old # ""
       /\ term_mappings[i].old # term_mappings[i].new
  /\ \A i, j \in Pairs :
       ~LiteralSubstring(term_mappings[i].new, term_mappings[j].old)

OldTerms == { term_mappings[i].old : i \in Pairs }

C22_MappingWellFormed ==
  /\ WellFormed
  /\ (out.op = "replace_in_content" /\ text \in OldTerms) =>
       \A i \in Pairs :
         text = term_mappings[i].old =>
           /\ out.text = term_mappings[i].new
           /\ out.count = 1
           /\ \A j \in Pairs :
                ~LiteralSubstring(out.text, term_mappings[j].old)

\* The old_term "Reyeets", which holds four shorter old_terms, was replaced.
C22_Witness ==
  /\ out.op = "replace_in_content"
  /\ text = "Reyeets"
  /\ out.text = "Rebuzzes"

(***************************************************************************)
(* C23.  With the built-in mapping the pairs never cascade: every          *)
(* occurrence that replace_in_content replaces is made of characters of    *)
(* the input alone, none of them written by the replacement of an earlier  *)
(* pair.  Each character of the working text carries a mark, "o" while it  *)
(* is the input's and "w" once a replacement wrote it; the claim is that   *)
(* no replaced occurrence holds a "w".                                     *)
(***************************************************************************)
RECURSIVE Repeat(_, _)
Repeat(c, n) == IF n = 0 THEN "" ELSE c \o Repeat(c, n - 1)

\* s.replace(old, new) on a marked text m: the new text, its marks, and
\* whether a replaced occurrence (of this call or an earlier one) held a
\* written character.
RECURSIVE MarkedReplace(_, _, _)
MarkedReplace(m, old, new) ==
  IF ~Contains(m.text, old) THEN m
  ELSE Bind(Find(m.text, old), LAMBDA i :
         Bind(MarkedReplace(
                [text |-> SubSeq(m.text, i + Len(old), Len(m.text)),
                 marks |-> SubSeq(m.marks, i + Len(old), Len(m.marks)),
                 cascade |-> \/ m.cascade
                             \/ Contains(SubSeq(m.marks, i, i + Len(old) - 1),
                                         "w")],
                old, new),
              LAMBDA rest :
                [text |-> SubSeq(m.text, 1, i - 1) \o new \o rest.text,
                 marks |-> SubSeq(m.marks, 1, i - 1)
                             \o Repeat("w", Len(new)) \o rest.marks,
                 cascade |-> rest.cascade]))

\* The loop of replace_in_content over pairs[i..] on a marked text.
RECURSIVE MarkedLoop(_, _, _)
MarkedLoop(pairs, i, m) ==
  IF i > Len(pairs) THEN m
  ELSE Bind(MarkedReplace(m, pairs[i].old, pairs[i].new),
            LAMBDA r : MarkedLoop(pairs, i + 1, r))

C23_NeverCascades ==
  out.op = "replace_in_content" =>
    LET m == MarkedLoop(sorted_mappings, 1,
                        [text |-> text, marks |-> Repeat("o", Len(text)),
                         cascade |-> FALSE])
    IN  m.text = out.text /\ ~m.cascade

(***************************************************************************)
(* C24.  No rename destroys an entry: a rename never lands on a name that  *)
(* another entry holds, so every file that was under the root when the run *)
(* started is still in the tree, under its old name or a new one, and the  *)
(* files of the tree are those of the start and, once written, the         *)
(* summary.                                                                *)
(***************************************************************************)
FilesOf(f) == { f[q].id : q \in { p \in DOMAIN f : f[p].kind = "file" } }

C24_NoEntryDestroyed ==
  /\ \A q \in DOMAIN start.fs :
       (IsUnder(q, start.base_path) /\ start.fs[q].kind = "file") =>
         start.fs[q].id \in FilesOf(fs)
  /\ FilesOf(fs) \ {SummaryId} = FilesOf(start.fs) \ {SummaryId}

\* ---------------------------------------------------------------------------
\* C25: once the tree walk has completed without an uncaught exception, no
\* directory named exactly pika whose path is not skipped remains under the
\* root, so the package-structure phase performs no rename and leaves
\* folders_renamed as the walk left it: every folder counted was renamed by
\* the walk, and the log holds no rename of the package-structure phase.
PackageDirectories(f, root) ==
  { q \in DOMAIN f : /\ IsUnder(q, root)
                     /\ f[q].kind = "dir"
                     /\ Name(q) = "pika"
                     /\ ~should_skip(Parent(q)) }

C25_PackagePhaseIdle ==
  /\ pc = "package" => PackageDirectories(fs, base_path) = {}
  /\ Performed({"rename_package"}) = {}
  /\ WalkCompleted =>
       stats.folders_renamed = Cardinality(Performed({"rename_dir"}))

\* The walk renamed a directory named pika, and the package-structure phase
\* has run after it.
C25_Witness ==
  /\ pc \in {"root", "summary", "done"}
  /\ \E k \in Performed({"rename_dir"}) : Name(log[k].path) = "pika"

\* ---------------------------------------------------------------------------
\* C26: every rename of a file or of a non-root directory, in the walk and in
\* the package-structure phase, changes only the last component of the
\* entry's path: the entry is found afterwards under the same parent with
\* the same identity and kind, a file has the content it had when the rename
\* was made (the content written back in the same call, if one was), and a
\* directory has below it what it had below it before.
EntryRenames == {"rename_file", "rename_dir", "rename_package"}

\* What is below directory p: each entry with its path relative to p.
Below(f, p) ==
  { <<SubSeq(q, Len(p) + 1, Len(q)), f[q]>> :
      q \in { d \in DOMAIN f : IsUnder(d, p) } }

C26_RenameChangesLastComponentOnly ==
  [][\A k \in (DOMAIN log') \ (DOMAIN log) :
       log'[k].op \in EntryRenames =>
         LET old_path == log'[k].path
             new_path == log'[k].dst
             written == \E j \in (DOMAIN log') \ (DOMAIN log) :
                          /\ j < k
                          /\ log'[j].op = "write"
                          /\ log'[j].id = log'[k].id
         IN  /\ Parent(new_path) = Parent(old_path)
             /\ Name(new_path) # Name(old_path)
             /\ old_path \in DOMAIN fs
             /\ new_path \in DOMAIN fs'
             /\ fs'[new_path].id = fs[old_path].id
             /\ fs'[new_path].kind = fs[old_path].kind
             /\ fs'[new_path].content =
                  IF written THEN replace_in_content(fs[old_path].content).text
                  ELSE fs[old_path].content
             /\ Below(fs', new_path) = Below(fs, old_path)]_vars

\* A directory with entries below it has been renamed, and so has a file
\* whose content was written back in the same call.
C26_Witness ==
  /\ \E k \in Performed({"rename_dir"}) : Below(fs, log[k].dst) # {}
  /\ \E k \in Performed({"rename_file"}) :
       \E j \in Performed({"write"}) : j < k /\ log[j].id = log[k].id

\* ---------------------------------------------------------------------------
\* C27: the tree is mutated in place: whatever root path the rebrander was
\* given, the root rename changes only the root's own name, so the renamed
\* root has the parent directory the original root had, and base_path is
\* afterwards the renamed root.
C27_RootRenamedInPlace ==
  \A k \in Performed({"rename_root"}) :
    /\ log[k].path = start.base_path
    /\ Parent(log[k].dst) = Parent(start.base_path)
    /\ base_path = log[k].dst

\* ---------------------------------------------------------------------------
\* C28: when the path of the root holds a skip substring and the root
\* exists, the walk and the package-structure phase write no file and rename
\* nothing (the tree and the counters are as at the start until the root
\* rename), and the run still ends with the root renamed to the new root and
\* a summary written there whose four counters are 0.
SkippedRoot ==
  /\ run = 1
  /\ start.base_path \in DOMAIN start.fs
  /\ should_skip(start.base_path)

C28_SkippedRootStillRenamed ==
  SkippedRoot =>
    /\ Performed({"write"} \cup EntryRenames) = {}
    /\ stats = ZeroStats
    /\ pc \in {"start", "walk", "package", "root"} => fs = start.fs
    /\ RunEnded =>
         /\ pc = "done"
         /\ Performed({"rename_root"}) # {}
         /\ base_path = new_base_path
         /\ IsFile(fs, new_base_path \o <<SummaryName>>)
         /\ fs[new_base_path \o <<SummaryName>>].content = SummaryContent(ZeroStats)

\* ---------------------------------------------------------------------------
\* C29: within one call of process_file on a processable file the write-back
\* comes before the rename, and a counter is incremented only after its
\* operation succeeded.  When the write fails, files_modified,
\* replacements_made and files_renamed are unchanged and the file is not
\* renamed.  When the write succeeds and the rename fails, the file keeps
\* its name and has the new content, files_modified is one more and
\* replacements_made is more by the replacements of the file, and
\* files_renamed is unchanged.
Step == (DOMAIN log') \ (DOMAIN log)

StepHas(op, id) == \E j \in Step : log'[j].op = op /\ log'[j].id = id

C29_WriteBeforeRenameCountAfterSuccess ==
  [][(pc = "walk" /\ run' = run) =>
       /\ \A k \in Step : \A j \in Step :
            (/\ log'[k].op = "rename_file"
             /\ log'[j].op = "write"
             /\ log'[j].id = log'[k].id) => j < k
       /\ stats'.files_modified # stats.files_modified =>
            \E j \in Step : log'[j].op = "write"
       /\ stats'.replacements_made # stats.replacements_made =>
            \E j \in Step : log'[j].op = "write"
       /\ stats'.files_renamed # stats.files_renamed =>
            \E j \in Step : log'[j].op = "rename_file"
       /\ \A k \in Step :
            (log'[k].op = "caught" /\ log'[k].dst = <<"write">>) =>
              /\ stats' = stats
              /\ ~StepHas("rename_file", log'[k].id)
              /\ log'[k].path \in DOMAIN fs'
              /\ fs'[log'[k].path].id = log'[k].id
       /\ \A k \in Step :
            (/\ log'[k].op = "caught"
             /\ log'[k].dst = <<"rename">>
             /\ StepHas("write", log'[k].id)) =>
              LET file_path == log'[k].path
                  r == replace_in_content(fs[file_path].content)
              IN  /\ ~StepHas("rename_file", log'[k].id)
                  /\ file_path \in DOMAIN fs'
                  /\ fs'[file_path].id = log'[k].id
                  /\ fs'[file_path].content = r.text
                  /\ r.text # fs[file_path].content
                  /\ r.count > 0
                  /\ stats'.files_modified = stats.files_modified + 1
                  /\ stats'.replacements_made = stats.replacements_made + r.count
                  /\ stats'.files_renamed = stats.files_renamed]_vars

\* A call wrote its file back and then failed in the rename, which was
\* caught: the file is under its old name with the new content.
C29_Witness ==
  \E k \in Performed({"caught"}) :
    /\ log[k].dst = <<"rename">>
    /\ k > 1
    /\ log[k - 1].op = "write"
    /\ log[k - 1].id = log[k].id
    /\ log[k].path \in DOMAIN fs
    /\ fs[log[k].path].content # start.fs[log[k].path].content
    /\ stats.files_modified > 0
    /\ stats.files_renamed = 0

\* ---------------------------------------------------------------------------
\* C30: running a generator leaves every path of its hard-coded list
\* existing as a file under the base path, never changes the content of a
\* file that existed before, and run a second time leaves the tree its
\* first run left.
GenerateEnded == pc \in {"generated", "crashed"}

C30_GeneratorCreatesAndKeeps ==
  /\ GenerateEnded =>
       \A i \in 1..Len(stack[1].files) : IsFile(fs, base_path \o stack[1].files[i])
  /\ \A q \in DOMAIN start.fs :
       start.fs[q].kind = "file" => (IsFile(fs, q) /\ fs[q].content = start.fs[q].content)
  /\ (run = 2 /\ GenerateEnded) => fs = start.once
====
